---- MODULE Spec2Model ----
(***************************************************************************)
(* The session-token authentication protocol of express-api-backend:       *)
(* register / login (controllers/auth.ts), the two gates isAuthenticated   *)
(* and isOwnAccount (middleware/index.ts), the user controllers            *)
(* (controllers/users.ts) and the route table (router/).                   *)
(*                                                                         *)
(* Every handler is an async function; each `await`, on the database or on *)
(* bcrypt, is a point where the steps of another request may run, so a     *)
(* handler is one action per awaited call, with the synchronous code that  *)
(* follows the call (validation, next(), the response) in that action.     *)
(***************************************************************************)
EXTENDS Integers, Sequences, FiniteSets, TLC

\* ---------------------------------------------------------------- bounds
MaxUsers == 2       \* records ever created (ids drawn by @default(cuid()))
MaxHash  == 3       \* calls of bcrypt.hash over a run
LiveHash == 1       \* calls of bcrypt.hash over a run checked for progress

\* the requests in flight at the same time: every race of the handlers is a
\* race of two requests
Reqs == {"r1", "r2"}

\* ---------------------------------------------------------------- inputs
Missing   == ""     \* an absent body field or cookie: falsy in `!x`
Emails    == {"a@x.com", "b@x.com"}
Passwords == {"p", "q"}
Bogus     == "forged"           \* a cookie value no login ever issued

\* cookie values of the form j:<json>: cookieParser() hands the handlers the
\* parsed JSON, here an object, in place of the string
NotNull    == "j:{\"not\":null}"
EqualsNull == "j:{\"equals\":null}"

Null == <<>>                    \* a nullable column / an absent value
Some(v) == <<v>>

\* ---------------------------------------------------------------- state
VARIABLES
    users,      \* the User table: a set of rows
    nextId,     \* number of the next id @default(cuid()) draws
    nextSalt,   \* number of the next salt bcrypt.hash draws
    req,        \* the requests in flight between two database calls, one per slot
    response,   \* the response the last step sent, if it sent one
    issued      \* history: the (id, token) pairs logins stored, in order

vars == <<users, nextId, nextSalt, req, response, issued>>

\* (mutant) an id that is not new: the same string on every create
CuidFixed(n) == "c" \o ToString(1)

\* id String @id @default(cuid()): a new string on every create
Cuid(n) == "c" \o ToString(n)

Ids == {Cuid(n) : n \in 1..MaxUsers}

\* (mutant) a hash without a salt: the same digest for the same data
HashNoSalt(data, salt) == "$2b$10$" \o data

\* bcrypt.hash(data, 10): the digest carries the salt drawn for this call
\* and depends on the data hashed
Hash(data, salt) == "$2b$10$" \o ToString(salt) \o "$" \o data

\* (mutant) a comparison that accepts every password
CompareAny(data, digest) == TRUE

\* bcrypt.compare(data, digest): hashes data again with the digest's salt
Compare(data, digest) == \E s \in 0..MaxHash : Hash(data, s) = digest

\* model User of the schema
User(id, username, email, password, sessionToken) ==
    [id |-> id, username |-> username, email |-> email,
     password |-> password, salt |-> Null, sessionToken |-> sessionToken]

\* ------------------------------------------------------ database adapter
\* (mutant) the lookup filters on the wrong column
FindByUsername(table, email) == {u \in table : u.username = email}

\* db.user.findUnique({ where: { email } })
FindByEmail(table, email) == {u \in table : u.email = email}

\* db.user.findUnique({ where: { id } })
FindById(table, id) == {u \in table : u.id = id}

\* (mutant) the lookup accepts any record that has a token
FindFirstWithToken(table, token) == {u \in table : u.sessionToken # Null}

\* db.user.findFirst({ where: { sessionToken } }): the records the filter
\* admits. A string admits the records that hold it; the object of a JSON
\* cookie is taken as the filter it spells.
FindFirstByToken(table, token) ==
    IF token = NotNull THEN {u \in table : u.sessionToken # Null}
    ELSE IF token = EqualsNull THEN {u \in table : u.sessionToken = Null}
    ELSE {u \in table : u.sessionToken = Some(token)}

\* (mutant) the table without the unique index on email
CreateAlways(table, email) == TRUE

\* email String @unique: a create that would repeat an email is refused
CreateAllowed(table, email) == FindByEmail(table, email) = {}

\* select: { id, email, username, sessionToken } of login's update
SelectLogin(u) ==
    [id |-> u.id, email |-> u.email, username |-> u.username,
     sessionToken |-> u.sessionToken]

\* ------------------------------------------------------------ route table
REGISTER == "POST /auth/register"
LOGIN    == "POST /auth/login"
LIST     == "GET /users"
DELETE   == "DELETE /users/:id"
PATCH    == "PATCH /users/:id"

\* (mutant) PATCH /users/:id without the ownership gate
HandlersNoOwnerGate(route) ==
    CASE route = REGISTER -> <<"register">>
      [] route = LOGIN    -> <<"login">>
      [] route = LIST     -> <<"isAuthenticated", "getAllUsers">>
      [] route = DELETE   -> <<"isAuthenticated", "isOwnAccount", "deleteUser">>
      [] route = PATCH    -> <<"isAuthenticated", "updateUser">>

\* router.post / router.get / router.delete / router.patch: the handlers of
\* a route, in the order they are given
Handlers(route) ==
    CASE route = REGISTER -> <<"register">>
      [] route = LOGIN    -> <<"login">>
      [] route = LIST     -> <<"isAuthenticated", "getAllUsers">>
      [] route = DELETE   -> <<"isAuthenticated", "isOwnAccount", "deleteUser">>
      [] route = PATCH    -> <<"isAuthenticated", "isOwnAccount", "updateUser">>

\* ---------------------------------------------------------------- requests
Idle ==
    [route |-> "none", at |-> 0, pc |-> "idle",
     email |-> Missing, password |-> Missing, username |-> Missing,
     cookie |-> Missing, id |-> Missing, hashed |-> Missing,
     identity |-> Null, existingUser |-> Null, trace |-> <<>>, wrote |-> FALSE]

\* a request as express hands it to the first handler of its route
Arrive(route, email, password, username, cookie, id) ==
    [Idle EXCEPT !.route = route, !.at = 1, !.pc = Handlers(route)[1],
                 !.email = email, !.password = password, !.username = username,
                 !.cookie = cookie, !.id = id]

\* the cookie values a client may present: none, a forged one, a JSON
\* cookie, or any token a login has issued so far
Cookies ==
    {Missing, Bogus, NotNull, EqualsNull} \cup {issued[i].token : i \in 1..Len(issued)}

RegisterBodies ==
    {<<e, "p", "ann">> : e \in Emails}
        \cup {<<Missing, "p", "ann">>, <<"a@x.com", Missing, "ann">>, <<"a@x.com", "p", Missing>>}

LoginBodies ==
    (Emails \X Passwords) \cup {<<Missing, "p">>, <<"a@x.com", Missing>>}

Arrivals ==
    {Arrive(REGISTER, b[1], b[2], b[3], Missing, Missing) : b \in RegisterBodies}
        \cup {Arrive(LOGIN, b[1], b[2], Missing, Missing, Missing) : b \in LoginBodies}
        \cup {Arrive(LIST, Missing, Missing, Missing, c, Missing) : c \in Cookies}
        \cup {Arrive(DELETE, Missing, Missing, Missing, c[1], c[2]) : c \in Cookies \X Ids}
        \cup {Arrive(PATCH, Missing, Missing, c[3], c[1], c[2]) :
                c \in Cookies \X Ids \X {"bob", Missing}}

\* A response is an output of the step that sent it: it is in the state right
\* after that step and has gone out before the next handler step.
Ready == response = Null

\* the requests handler h may be run on in slot r: the one waiting for it,
\* or a new one whose route starts with it
Incoming(r, h) ==
    IF req[r] = Idle THEN {a \in Arrivals : a.pc = h}
    ELSE IF req[r].pc = h THEN {req[r]} ELSE {}

Ran(q, h) == [q EXCEPT !.trace = Append(@, h)]

\* next(): the next handler of the route
NextHandler(q) ==
    [q EXCEPT !.at = @ + 1, !.pc = Handlers(q.route)[q.at + 1]]

\* res.sendStatus(code): a status and no JSON body
SendStatus(q, code) ==
    Some([req |-> q, status |-> code, json |-> Null, setCookie |-> Null, fault |-> FALSE])

\* res.status(200).json(body)
SendJson(q, body) ==
    Some([req |-> q, status |-> 200, json |-> Some(body), setCookie |-> Null,
          fault |-> FALSE])

\* (mutant) the cookie is set from the record read before the update
WithStaleCookie(res, value) ==
    Some([res[1] EXCEPT !.setCookie = res[1].req.existingUser[1].sessionToken])

\* res.cookie("EXPRESS-API-AUTH", value, ...) before the response is sent
WithCookie(res, value) == Some([res[1] EXCEPT !.setCookie = value])

\* the handler of slot r answers: the request is over
Answer(r, res) ==
    /\ response' = res
    /\ req' = [req EXCEPT ![r] = Idle]

\* the handler of slot r goes on waiting, as q
Continue(r, q) ==
    /\ response' = Null
    /\ req' = [req EXCEPT ![r] = q]

Init ==
    /\ users = {}
    /\ nextId = 1
    /\ nextSalt = 1
    /\ req = [r \in Reqs |-> Idle]
    /\ response = Null
    /\ issued = <<>>

\* ------------------------------------------------------- controllers/auth
\* register, up to the answer of findUnique
RegisterLookupFirst(r) ==
    /\ Ready
    /\ \E q0 \in Incoming(r, "register") :
         LET q == Ran(q0, "register") IN
         /\ IF FindByEmail(users, q.email) # {}
            THEN Answer(r, SendStatus(q, 409))
            ELSE IF q.email = Missing \/ q.password = Missing \/ q.username = Missing
            THEN Answer(r, SendStatus(q, 400))
            ELSE Continue(r, [q EXCEPT !.pc = "hash"])
         /\ UNCHANGED <<users, nextId, nextSalt, issued>>

\* register, up to the verdict of the lookup by email
Register(r) ==
    /\ Ready
    /\ \E q0 \in Incoming(r, "register") :
         LET q == Ran(q0, "register") IN
         /\ IF q.email = Missing \/ q.password = Missing \/ q.username = Missing
            THEN Answer(r, SendStatus(q, 400))
            ELSE IF FindByEmail(users, q.email) # {}
            THEN Answer(r, SendStatus(q, 409))
            ELSE Continue(r, [q EXCEPT !.pc = "hash"])
         /\ UNCHANGED <<users, nextId, nextSalt, issued>>

\* register, bcrypt.hash(password, 10) returns and db.user.create is called
RegisterHash(r) ==
    LET q == req[r] IN
    /\ Ready
    /\ q.pc = "hash"
    /\ nextSalt <= MaxHash
    /\ nextSalt' = nextSalt + 1
    /\ Continue(r, [q EXCEPT !.pc = "create", !.hashed = Hash(q.password, nextSalt)])
    /\ UNCHANGED <<users, nextId, issued>>

\* register, db.user.create and the answer
RegisterCreate(r) ==
    LET q == req[r]
        newUser == User(Cuid(nextId), q.username, q.email, q.hashed, Null)
    IN
    /\ Ready
    /\ q.pc = "create"
    /\ nextId <= MaxUsers
    /\ IF CreateAllowed(users, q.email)
       THEN /\ users' = users \cup {newUser}
            /\ nextId' = nextId + 1
            /\ Answer(r, SendJson([q EXCEPT !.wrote = TRUE], newUser))
       ELSE /\ Answer(r, SendStatus(q, 400))
            /\ UNCHANGED <<users, nextId>>
    /\ UNCHANGED <<nextSalt, issued>>

\* login, up to the answer of findUnique; bcrypt.compare is called
Login(r) ==
    /\ Ready
    /\ \E q0 \in Incoming(r, "login") :
         LET q == Ran(q0, "login") IN
         /\ IF q.email = Missing \/ q.password = Missing
            THEN Answer(r, SendStatus(q, 400))
            ELSE IF FindByEmail(users, q.email) = {}
            THEN Answer(r, SendStatus(q, 401))
            ELSE \E u \in FindByEmail(users, q.email) :
                   Continue(r, [q EXCEPT !.pc = "compare", !.existingUser = Some(u)])
         /\ UNCHANGED <<users, nextId, nextSalt, issued>>

\* login, the verdict of bcrypt.compare on the record read; bcrypt.hash of
\* the id is called
LoginCompare(r) ==
    LET q == req[r] IN
    /\ Ready
    /\ q.pc = "compare"
    /\ IF ~Compare(q.password, q.existingUser[1].password)
       THEN Answer(r, SendStatus(q, 401))
       ELSE Continue(r, [q EXCEPT !.pc = "issue"])
    /\ UNCHANGED <<users, nextId, nextSalt, issued>>

\* login, bcrypt.hash(existingUser.id, 10) returns and db.user.update is
\* called
LoginHash(r) ==
    LET q == req[r] IN
    /\ Ready
    /\ q.pc = "issue"
    /\ nextSalt <= MaxHash
    /\ nextSalt' = nextSalt + 1
    /\ Continue(r, [q EXCEPT !.pc = "store",
                              !.hashed = Hash(q.existingUser[1].id, nextSalt)])
    /\ UNCHANGED <<users, nextId, issued>>

\* (mutant) the update is skipped when the record's token is no longer the
\* one login read, and login answers with its own token all the same
LoginIssueKeepFirst(r) ==
    LET q == req[r]
        id == q.existingUser[1].id
        sessionToken == q.hashed
    IN
    /\ Ready
    /\ q.pc = "store"
    /\ IF FindById(users, id) # {}
       THEN \E u \in FindById(users, id) :
              LET updatedUser == [u EXCEPT !.sessionToken = Some(sessionToken)] IN
              /\ users' = IF u.sessionToken = q.existingUser[1].sessionToken
                          THEN (users \ {u}) \cup {updatedUser} ELSE users
              /\ issued' = Append(issued, [id |-> id, token |-> sessionToken])
              /\ Answer(r, WithCookie(SendJson([q EXCEPT !.wrote = TRUE],
                                               SelectLogin(updatedUser)),
                                      updatedUser.sessionToken))
       ELSE /\ Answer(r, SendStatus(q, 400))
            /\ UNCHANGED <<users, issued>>
    /\ UNCHANGED <<nextId, nextSalt>>

\* login, db.user.update, the cookie and the answer
LoginIssue(r) ==
    LET q == req[r]
        id == q.existingUser[1].id
        sessionToken == q.hashed
    IN
    /\ Ready
    /\ q.pc = "store"
    /\ IF FindById(users, id) # {}
       THEN \E u \in FindById(users, id) :
              LET updatedUser == [u EXCEPT !.sessionToken = Some(sessionToken)] IN
              /\ users' = (users \ {u}) \cup {updatedUser}
              /\ issued' = Append(issued, [id |-> id, token |-> sessionToken])
              /\ Answer(r, WithCookie(SendJson([q EXCEPT !.wrote = TRUE],
                                               SelectLogin(updatedUser)),
                                      updatedUser.sessionToken))
       ELSE /\ Answer(r, SendStatus(q, 400))
            /\ UNCHANGED <<users, issued>>
    /\ UNCHANGED <<nextId, nextSalt>>

\* ------------------------------------------------------------- middleware
\* updateUser up to its first await: the username is tested in the step
\* that called next(), before findUnique is called
UpdateUserValidate(r, q) ==
    IF q.username = Missing
    THEN Answer(r, SendStatus(Ran(q, "updateUser"), 400))
    ELSE Continue(r, q)

\* next() runs the handler q is at up to its first await: getAllUsers and
\* deleteUser start with their database call
Enter(r, q) ==
    IF q.pc = "updateUser" THEN UpdateUserValidate(r, q) ELSE Continue(r, q)

\* (mutant) the 403 is sent without `return`: the handler goes on to next()
IsOwnAccountNoReturn(r, q0) ==
    LET q == Ran(q0, "isOwnAccount") IN
    IF q.identity = Null
    THEN Answer(r, SendStatus(q, 403))
    ELSE IF q.identity[1].id # q.id
    THEN /\ response' = SendStatus(q, 403)
         /\ req' = [req EXCEPT ![r] = NextHandler(q)]
    ELSE Enter(r, NextHandler(q))

\* (mutant) the gate without the comparison of the ids
IsOwnAccountNoCompare(r, q0) ==
    LET q == Ran(q0, "isOwnAccount") IN
    IF q.identity = Null
    THEN Answer(r, SendStatus(q, 403))
    ELSE Enter(r, NextHandler(q))

\* isOwnAccount has no await: express runs it inside the step that called
\* next(), on the request q0 that reached it
IsOwnAccount(r, q0) ==
    LET q == Ran(q0, "isOwnAccount") IN
    IF q.identity = Null
    THEN Answer(r, SendStatus(q, 403))
    ELSE IF q.identity[1].id # q.id
    THEN Answer(r, SendStatus(q, 403))
    ELSE Enter(r, NextHandler(q))

\* express calls the handler q is at: a handler that awaits the database
\* goes on in a step of its own
Call(r, q) ==
    IF q.pc = "isOwnAccount" THEN IsOwnAccount(r, q) ELSE Enter(r, q)

\* (mutant) the gate uses the token up: it clears it on the record it matched
IsAuthenticatedRotate(r) ==
    /\ Ready
    /\ \E q0 \in Incoming(r, "isAuthenticated") :
         LET q == Ran(q0, "isAuthenticated") IN
         /\ IF q.cookie = Missing
            THEN Answer(r, SendStatus(q, 403)) /\ UNCHANGED users
            ELSE IF FindFirstByToken(users, q.cookie) = {}
            THEN Answer(r, SendStatus(q, 403)) /\ UNCHANGED users
            ELSE \E existingUser \in FindFirstByToken(users, q.cookie) :
                   /\ users' = (users \ {existingUser})
                                  \cup {[existingUser EXCEPT !.sessionToken = Null]}
                   /\ Call(r, NextHandler([q EXCEPT !.identity = Some(existingUser)]))
         /\ UNCHANGED <<nextId, nextSalt, issued>>

IsAuthenticated(r) ==
    /\ Ready
    /\ \E q0 \in Incoming(r, "isAuthenticated") :
         LET q == Ran(q0, "isAuthenticated") IN
         /\ IF q.cookie = Missing
            THEN Answer(r, SendStatus(q, 403))
            ELSE IF FindFirstByToken(users, q.cookie) = {}
            THEN Answer(r, SendStatus(q, 403))
            ELSE \E existingUser \in FindFirstByToken(users, q.cookie) :
                   Call(r, NextHandler([q EXCEPT !.identity = Some(existingUser)]))
         /\ UNCHANGED <<users, nextId, nextSalt, issued>>

\* ------------------------------------------------------ controllers/users
GetAllUsers(r) ==
    /\ Ready
    /\ \E q0 \in Incoming(r, "getAllUsers") :
         LET q == Ran(q0, "getAllUsers") IN
         /\ Answer(r, SendJson(q, users))
         /\ UNCHANGED <<users, nextId, nextSalt, issued>>

\* (mutant) a delete that does not throw when no record has the id
DeleteUserQuiet(r) ==
    /\ Ready
    /\ \E q0 \in Incoming(r, "deleteUser") :
         LET q == Ran(q0, "deleteUser") IN
         /\ users' = users \ FindById(users, q.id)
         /\ Answer(r, SendJson([q EXCEPT !.wrote = TRUE], FindById(users, q.id)))
         /\ UNCHANGED <<nextId, nextSalt, issued>>

\* (mutant) the record is returned and left in the table
DeleteUserSoft(r) ==
    /\ Ready
    /\ \E q0 \in Incoming(r, "deleteUser") :
         LET q == Ran(q0, "deleteUser") IN
         /\ IF FindById(users, q.id) # {}
            THEN \E deleteduser \in FindById(users, q.id) :
                   /\ users' = users
                   /\ Answer(r, SendJson([q EXCEPT !.wrote = TRUE], deleteduser))
            ELSE /\ Answer(r, SendStatus(q, 400))
                 /\ UNCHANGED users
         /\ UNCHANGED <<nextId, nextSalt, issued>>

DeleteUser(r) ==
    /\ Ready
    /\ \E q0 \in Incoming(r, "deleteUser") :
         LET q == Ran(q0, "deleteUser") IN
         /\ IF FindById(users, q.id) # {}
            THEN \E deleteduser \in FindById(users, q.id) :
                   /\ users' = users \ {deleteduser}
                   /\ Answer(r, SendJson([q EXCEPT !.wrote = TRUE], deleteduser))
            ELSE /\ Answer(r, SendStatus(q, 400))
                 /\ UNCHANGED users
         /\ UNCHANGED <<nextId, nextSalt, issued>>

\* updateUser, the answer of findUnique; db.user.update is called
UpdateUser(r) ==
    /\ Ready
    /\ \E q0 \in Incoming(r, "updateUser") :
         LET q == Ran(q0, "updateUser") IN
         /\ IF FindById(users, q.id) = {}
            THEN Answer(r, SendStatus(q, 400))
            ELSE \E u \in FindById(users, q.id) :
                   Continue(r, [q EXCEPT !.pc = "update", !.existingUser = Some(u)])
         /\ UNCHANGED <<users, nextId, nextSalt, issued>>

\* (mutant) an upsert: the record read by findUnique is written back when
\* the row is gone
UpdateUserWriteUpsert(r) ==
    LET q == req[r]
        updateduser == [q.existingUser[1] EXCEPT !.username = q.username]
    IN
    /\ Ready
    /\ q.pc = "update"
    /\ users' = (users \ FindById(users, q.id)) \cup {updateduser}
    /\ Answer(r, SendJson([q EXCEPT !.wrote = TRUE], updateduser))
    /\ UNCHANGED <<nextId, nextSalt, issued>>

\* (mutant) the update writes the whole body: data: req.body
UpdateUserWriteBody(r) ==
    LET q == req[r] IN
    /\ Ready
    /\ q.pc = "update"
    /\ IF FindById(users, q.id) # {}
       THEN \E u \in FindById(users, q.id) :
              LET updateduser == [u EXCEPT !.username = q.username, !.email = q.email] IN
              /\ users' = (users \ {u}) \cup {updateduser}
              /\ Answer(r, SendJson([q EXCEPT !.wrote = TRUE], updateduser))
       ELSE /\ Answer(r, SendStatus(q, 400))
            /\ UNCHANGED users
    /\ UNCHANGED <<nextId, nextSalt, issued>>

\* updateUser, db.user.update and the answer
UpdateUserWrite(r) ==
    LET q == req[r] IN
    /\ Ready
    /\ q.pc = "update"
    /\ IF FindById(users, q.id) # {}
       THEN \E u \in FindById(users, q.id) :
              LET updateduser == [u EXCEPT !.username = q.username] IN
              /\ users' = (users \ {u}) \cup {updateduser}
              /\ Answer(r, SendJson([q EXCEPT !.wrote = TRUE], updateduser))
       ELSE /\ Answer(r, SendStatus(q, 400))
            /\ UNCHANGED users
    /\ UNCHANGED <<nextId, nextSalt, issued>>

\* the database or bcrypt call a handler awaits at q, if it awaits one
AwaitsDb(q) ==
    \/ q.pc \in {"hash", "create", "compare", "issue", "store",
                 "getAllUsers", "deleteUser", "updateUser", "update"}
    \/ q.pc = "register" /\ q.email # Missing /\ q.password # Missing /\ q.username # Missing
    \/ q.pc = "login" /\ q.email # Missing /\ q.password # Missing
    \/ q.pc = "isAuthenticated" /\ q.cookie # Missing

\* catch (err) { console.log(err); return res.sendStatus(400); }
\* the awaited call throws (connection lost, ...) and nothing is written
Catch(r) ==
    /\ Ready
    /\ \E q0 \in (IF req[r] = Idle THEN Arrivals ELSE {req[r]}) :
         /\ AwaitsDb(q0)
         /\ Answer(r, Some([SendStatus(Ran(q0, q0.pc), 400)[1] EXCEPT !.fault = TRUE]))
         /\ UNCHANGED <<users, nextId, nextSalt, issued>>

\* the response has gone out on the wire
Flush ==
    /\ response # Null
    /\ response' = Null
    /\ UNCHANGED <<users, nextId, nextSalt, req, issued>>

Next ==
    \/ \E r \in Reqs :
        \/ Register(r) \/ RegisterHash(r) \/ RegisterCreate(r)
        \/ Login(r) \/ LoginCompare(r) \/ LoginHash(r) \/ LoginIssue(r)
        \/ IsAuthenticated(r)
        \/ GetAllUsers(r) \/ DeleteUser(r)
        \/ UpdateUser(r) \/ UpdateUserWrite(r)
        \/ Catch(r)
    \/ Flush

Spec == Init /\ [][Next]_vars

\* The server with one user on the table: ann, registered before the run
\* (the digest of her password carries a salt drawn before the run's own).
\* The run's MaxHash hash calls then reach two users who hold a token.
InitRegistered ==
    /\ users = {User(Cuid(1), "ann", "a@x.com", Hash("p", 0), Null)}
    /\ nextId = 2
    /\ nextSalt = 1
    /\ req = [r \in Reqs |-> Idle]
    /\ response = Null
    /\ issued = <<>>

SpecRegistered == InitRegistered /\ [][Next]_vars

\* Progress. A handler waiting on a database or hash call is resumed by
\* node's event loop when the call returns or throws: the step that follows
\* the await of the request in slot r is one of these. It is disabled only
\* while the response of the previous step is on its way out, so it is
\* enabled again and again until it is taken (strong fairness). The runs
\* checked for progress start with ann registered and LiveHash hash calls
\* left; the value of a salt is of no consequence, only that it is fresh.
Finish(r) ==
    /\ req[r] # Idle
    /\ \/ RegisterHash(r) \/ RegisterCreate(r)
       \/ LoginCompare(r) \/ LoginHash(r) \/ LoginIssue(r)
       \/ GetAllUsers(r) \/ DeleteUser(r)
       \/ UpdateUser(r) \/ UpdateUserWrite(r)
       \/ Catch(r)

LiveInit ==
    /\ users = {User(Cuid(1), "ann", "a@x.com", Hash("p", 0), Null)}
    /\ nextId = 2
    /\ nextSalt = MaxHash + 1 - LiveHash
    /\ req = [r \in Reqs |-> Idle]
    /\ response = Null
    /\ issued = <<>>

SpecLive ==
    /\ LiveInit
    /\ [][Next]_vars
    /\ WF_vars(Flush)
    /\ \A r \in Reqs : SF_vars(Finish(r))

\* ------------------------------------------------------------------ claims
Gated == {LIST, DELETE, PATCH}

\* the response of the step, and the request it answers
Res == response[1]

\* A step answers a request it was handed in the same step (the slot was
\* and stays idle), or a request that was waiting in a slot.
AnswersArrival == response' # Null /\ req' = req
AnswersWaiting(r) == response' # Null /\ req[r] # Idle /\ req'[r] = Idle
Holds(r) == req[r] = Idle /\ req'[r] # Idle

Changed == (users \ users') \cup (users' \ users)

\* C1: a delete or update that a DELETE /users/:id or PATCH /users/:id
\* request executes touches only the record whose id is the path id, and
\* only when the identity the Authentication Gate attached has that id; a
\* request whose identity has another id is answered 403 and writes nothing.
C1_OwnerOnly ==
    [][ (response' # Null /\ response'[1].req.route \in {DELETE, PATCH}) =>
          LET q == response'[1].req IN
          /\ users' # users =>
                /\ q.identity # Null
                /\ q.identity[1].id = q.id
                /\ \A u \in Changed : u.id = q.id
          /\ (q.identity # Null /\ q.identity[1].id # q.id) =>
                /\ response'[1].status = 403
                /\ users' = users
                /\ ~q.wrote ]_vars

\* an authenticated DELETE aimed at another user's existing record was refused
C1_Witness ==
    /\ response # Null
    /\ Res.req.route = DELETE
    /\ Res.req.identity # Null
    /\ Res.req.identity[1].id # Res.req.id
    /\ FindById(users, Res.req.id) # {}
    /\ Res.status = 403

\* the tokens of user id that a later login of the same user has replaced
Superseded ==
    {issued[i].token : i \in {k \in 1..Len(issued) :
        \E j \in (k + 1)..Len(issued) : issued[j].id = issued[k].id}}

\* the token values (the values logins have issued, and a forged one) that
\* authenticate as the user with this id
Authenticates(id) ==
    {c \in {Bogus} \cup {issued[i].token : i \in 1..Len(issued)} :
        \E u \in FindFirstByToken(users, c) : u.id = id}

\* C2: once a later login of U has stored its token, no record holds a token
\* an earlier login of U issued, a request that presents such a token to the
\* Authentication Gate is answered 403, and at most one token value
\* authenticates as U.  (Earlier and later are the order of the updates.)
C2_OldCookieInvalid ==
    /\ [](/\ \A c \in Superseded : FindFirstByToken(users, c) = {}
          /\ \A id \in Ids : Cardinality(Authenticates(id)) <= 1)
    /\ [][ /\ (AnswersArrival /\ response'[1].req.route \in Gated
                  /\ ~response'[1].fault /\ response'[1].req.cookie \in Superseded)
                => response'[1].status = 403
           /\ \A r \in Reqs : (Holds(r) /\ req'[r].route \in Gated)
                => req'[r].cookie \notin Superseded ]_vars

\* a request presented a replaced token of a user who still exists
C2_Witness ==
    /\ response # Null
    /\ Res.req.route \in Gated
    /\ Res.req.cookie \in Superseded
    /\ Res.status = 403
    /\ \E i \in 1..Len(issued) :
         /\ issued[i].token = Res.req.cookie
         /\ FindById(users, issued[i].id) # {}

\* the row of the table with this id, before and after the step
Row(table, id) == CHOOSE u \in table : u.id = id

\* C3: every successful login stores on the user's record a sessionToken that
\* differs from the one stored right before, and the token of the returned
\* record, the cookie and the stored value are the same.
C3_LoginFreshToken ==
    [][ (response' # Null /\ response'[1].req.route = LOGIN
            /\ response'[1].status = 200) =>
          LET body == response'[1].json[1]
              id == body.id
          IN
          /\ FindById(users, id) # {} /\ FindById(users', id) # {}
          /\ Row(users', id).sessionToken # Null
          /\ Row(users', id).sessionToken # Row(users, id).sessionToken
          /\ body.sessionToken = Row(users', id).sessionToken
          /\ response'[1].setCookie = Row(users', id).sessionToken ]_vars

\* a login succeeded for a user who already had a token
C3_Witness ==
    /\ response # Null
    /\ Res.req.route = LOGIN
    /\ Res.status = 200
    /\ Res.req.existingUser[1].sessionToken # Null
    /\ \E i \in 1..(Len(issued) - 1) : issued[i].id = Res.json[1].id

\* C4: no two records hold the same sessionToken, and the identity the
\* Authentication Gate attaches for a cookie that a login of U issued is a
\* record of U.
C4_TokenOwner ==
    /\ \A u, v \in users :
         (u # v /\ u.sessionToken # Null) => u.sessionToken # v.sessionToken
    /\ \A r \in Reqs : req[r].identity # Null =>
         \A i \in 1..Len(issued) :
            issued[i].token = req[r].cookie => req[r].identity[1].id = issued[i].id
    /\ (response # Null /\ Res.req.identity # Null) =>
         \A i \in 1..Len(issued) :
            issued[i].token = Res.req.cookie => Res.req.identity[1].id = issued[i].id

\* two users hold a token and the gate has attached one of them to a request
C4_Witness ==
    /\ Cardinality({u \in users : u.sessionToken # Null}) = 2
    /\ \E r \in Reqs :
         /\ req[r].identity # Null
         /\ \E i \in 1..Len(issued) : issued[i].token = req[r].cookie

\* no cookie, or a cookie value that no record holds as its sessionToken
NoMatch(cookie) == cookie = Missing \/ \A u \in users : u.sessionToken # Some(cookie)

\* C5 (as claimed): a request to a gated route with no cookie, or with a
\* cookie value that no record holds as sessionToken when the gate looks it
\* up, is answered 403 by the gate: no later handler runs and the table is
\* unchanged.
C5_GateRejects ==
    [][ /\ (AnswersArrival /\ response'[1].req.route \in Gated
               /\ ~response'[1].fault /\ NoMatch(response'[1].req.cookie))
             => /\ response'[1].status = 403
                /\ response'[1].req.trace = <<"isAuthenticated">>
                /\ ~response'[1].req.wrote
                /\ users' = users
        /\ \A r \in Reqs : (Holds(r) /\ req'[r].route \in Gated)
             => ~NoMatch(req'[r].cookie) ]_vars

Complete(q) == q.email # Missing /\ q.password # Missing /\ q.username # Missing

\* C6: a register request with all three fields whose email an existing
\* record holds is answered 409, creates nothing and leaves every record as
\* it was.
C6_RegisterConflict ==
    [][ /\ (AnswersArrival /\ response'[1].req.route = REGISTER
               /\ ~response'[1].fault /\ Complete(response'[1].req)
               /\ \E u \in users : u.email = response'[1].req.email)
             => /\ response'[1].status = 409
                /\ users' = users
        /\ \A r \in Reqs : (Holds(r) /\ req'[r].route = REGISTER)
             => ~\E u \in users : u.email = req'[r].email ]_vars

\* a registration was refused because of an existing record
C6_Witness ==
    /\ response # Null
    /\ Res.req.route = REGISTER
    /\ Res.status = 409
    /\ \E u \in users : u.email = Res.req.email

\* C7: no two records share an email, however register requests interleave.
C7_EmailUnique ==
    \A u, v \in users : u.email = v.email => u = v

\* two registers of one email had both passed the lookup; the create of the
\* second was refused by the table
C7_Witness ==
    /\ response # Null
    /\ Res.req.route = REGISTER
    /\ Res.req.pc = "create"
    /\ ~Res.fault
    /\ Res.status = 400
    /\ \E u \in users : u.email = Res.req.email

\* C8 (as claimed): a register request with all three fields that creates no
\* record is answered 409, also when another request created the record
\* between its lookup and its create.
C8_LoserGets409 ==
    (response # Null /\ Res.req.route = REGISTER /\ Complete(Res.req)
        /\ ~Res.fault /\ Res.status # 200)
      => Res.status = 409

NoneVerifies(email, password) ==
    \A u \in FindByEmail(users, email) : ~\E s \in 0..MaxHash : u.password = Hash(password, s)

\* C9: a login with both fields is answered 401 when no record has the email
\* and when the password does not verify against the record; the two
\* answers are the same (401, no cookie, no body) and the table is unchanged.
C9_LoginUnauthorized ==
    [][ /\ (AnswersArrival /\ response'[1].req.route = LOGIN
               /\ ~response'[1].fault
               /\ response'[1].req.email # Missing /\ response'[1].req.password # Missing)
             => /\ FindByEmail(users, response'[1].req.email) = {}
                /\ response'[1].status = 401
        /\ \A r \in Reqs : (Holds(r) /\ req'[r].route = LOGIN)
             => /\ req'[r].existingUser # Null
                /\ req'[r].existingUser[1] \in FindByEmail(users, req'[r].email)
        /\ \A r \in Reqs : (req[r].pc = "compare" /\ req'[r] # req[r]
                              /\ ~(response' # Null /\ response'[1].fault))
             => IF \E s \in 0..MaxHash :
                      req[r].existingUser[1].password = Hash(req[r].password, s)
                THEN response' = Null /\ req'[r].pc = "issue"
                ELSE AnswersWaiting(r) /\ response'[1].status = 401
        /\ (response' # Null /\ response'[1].status = 401)
             => /\ response'[1].req.route = LOGIN
                /\ response'[1] = SendStatus(response'[1].req, 401)[1]
                /\ ~response'[1].req.wrote
                /\ <<users, issued>>' = <<users, issued>> ]_vars

\* a login with a wrong password for an existing record was refused
C9_Witness ==
    /\ response # Null
    /\ Res.req.route = LOGIN
    /\ Res.status = 401
    /\ Res.req.pc = "compare"
    /\ FindByEmail(users, Res.req.email) # {}

\* C10 (as claimed): a DELETE /users/:id whose path id matches no record is
\* answered 400; stated for the requests that bring a cookie the
\* Authentication Gate accepts, the ones that can get past the first gate.
C10_MissingIdGets400 ==
    [][ (response' # Null /\ response'[1].req.route = DELETE /\ ~response'[1].fault
            /\ response'[1].req.identity # Null
            /\ FindById(users, response'[1].req.id) = {})
          => response'[1].status = 400 ]_vars

\* C10 (amended): a DELETE /users/:id whose path id matches no record when
\* the request reaches the Authentication Gate is answered 403 by a gate; a
\* DELETE that passed both gates and finds no record for the id when
\* deleteUser deletes is answered 400, and the table is unchanged.
C10_MissingIdGated ==
    [][ /\ (AnswersArrival /\ response'[1].req.route = DELETE /\ ~response'[1].fault
               /\ FindById(users, response'[1].req.id) = {})
             => response'[1].status = 403 /\ users' = users
        /\ \A r \in Reqs : (Holds(r) /\ req'[r].route = DELETE)
             => FindById(users, req'[r].id) # {}
        /\ \A r \in Reqs : (AnswersWaiting(r) /\ req[r].route = DELETE
                              /\ ~response'[1].fault
                              /\ FindById(users, req[r].id) = {})
             => response'[1].status = 400 /\ users' = users ]_vars

\* deleteUser ran for an id whose record a concurrent request had removed
C10_Witness ==
    /\ response # Null
    /\ Res.req.route = DELETE
    /\ ~Res.fault
    /\ Res.status = 400
    /\ Res.req.trace = <<"isAuthenticated", "isOwnAccount", "deleteUser">>

\* the ids that creates have drawn so far, and those whose record is gone
Created == {Cuid(n) : n \in 1..(nextId - 1)}
Gone == {id \in Created : FindById(users, id) = {}}

\* C11: once a DELETE /users/:id for X has answered 200, no record with id X
\* exists, none appears again (a create never draws a used id), and no later
\* 200 of GET /users lists a record with id X.
C11_DeletedStaysGone ==
    [][ /\ (response' # Null /\ response'[1].req.route = DELETE
               /\ response'[1].status = 200)
             => /\ FindById(users', response'[1].req.id) = {}
                /\ response'[1].req.id \in Gone'
        /\ \A id \in Gone : id \in Gone'
        /\ \A u \in users' \ users :
             (\E v \in users : v.id = u.id) \/ u.id \notin Created
        /\ (response' # Null /\ response'[1].req.route = LIST
               /\ response'[1].status = 200)
             => \A u \in response'[1].json[1] : u.id \notin Gone' ]_vars

\* GET /users answered 200, with records, after a record was deleted
C11_Witness ==
    /\ response # Null
    /\ Res.req.route = LIST
    /\ Res.status = 200
    /\ Res.json[1] # {}
    /\ Gone # {}

\* C12: a PATCH /users/:id that answers 200 changes the username of the
\* record with the path id and nothing else: its id, email, password and
\* sessionToken and every other record stay; and no step changes the id or
\* the email of a record (a record keeps both until it is deleted).
C12_PatchOnlyUsername ==
    [][ /\ (response' # Null /\ response'[1].req.route = PATCH
               /\ response'[1].status = 200)
             => \E old \in users :
                  /\ old.id = response'[1].req.id
                  /\ users' = (users \ {old})
                        \cup {[old EXCEPT !.username = response'[1].req.username]}
                  /\ response'[1].json = Some([old EXCEPT !.username = response'[1].req.username])
        /\ \A u \in users :
             \/ \E v \in users' : v.id = u.id /\ v.email = u.email
             \/ /\ response' # Null /\ response'[1].req.route = DELETE
                /\ response'[1].status = 200 /\ response'[1].req.id = u.id
                /\ FindById(users', u.id) = {} ]_vars

\* a PATCH renamed a record while another record was in the table
C12_Witness ==
    /\ response # Null
    /\ Res.req.route = PATCH
    /\ Res.status = 200
    /\ Res.json[1].username = "bob"
    /\ Res.json[1].sessionToken # Null
    /\ Cardinality(users) = 2

\* the logins of the user with this id, and the token of the last of them
IssuedTo(id) == {i \in 1..Len(issued) : issued[i].id = id}
LastToken(id) ==
    issued[CHOOSE i \in IssuedTo(id) : \A j \in IssuedTo(id) : j <= i].token
IssuedTokens == {issued[i].token : i \in 1..Len(issued)}

\* C13: when logins of one user interleave, each whose update finds the
\* record answers 200 with a token of its own, the updates are applied one
\* after the other, the record holds the token of the update applied last,
\* and the gate admits that token only: any other issued token gets 403.
C13_LastLoginWins ==
    /\ [](/\ \A i, j \in 1..Len(issued) : i # j => issued[i].token # issued[j].token
          /\ \A u \in users :
               u.sessionToken = IF IssuedTo(u.id) = {} THEN Null
                                ELSE Some(LastToken(u.id)))
    /\ [][ /\ \A r \in Reqs : (AnswersWaiting(r) /\ req[r].pc = "store"
                                 /\ ~response'[1].fault
                                 /\ FindById(users, req[r].existingUser[1].id) # {})
                => /\ response'[1].status = 200
                   /\ response'[1].setCookie # Null
                   /\ response'[1].setCookie[1] \notin IssuedTokens
                   /\ issued' = Append(issued, [id |-> req[r].existingUser[1].id,
                                                token |-> response'[1].setCookie[1]])
           /\ (AnswersArrival /\ response'[1].req.route \in Gated /\ ~response'[1].fault
                  /\ \E i \in 1..Len(issued) :
                       /\ issued[i].token = response'[1].req.cookie
                       /\ issued[i].token # LastToken(issued[i].id))
                => response'[1].status = 403
           /\ \A r \in Reqs : (Holds(r) /\ req'[r].route \in Gated)
                => \A i \in 1..Len(issued) :
                     issued[i].token = req'[r].cookie
                        => issued[i].token = LastToken(issued[i].id) ]_vars

\* a login answered 200 after another login of the same user had stored its
\* token between this login's lookup and its update
C13_Witness ==
    /\ response # Null
    /\ Res.req.route = LOGIN
    /\ Res.status = 200
    /\ Len(issued) >= 2
    /\ issued[Len(issued) - 1].id = Res.json[1].id
    /\ Res.req.existingUser[1].sessionToken # Some(issued[Len(issued) - 1].token)
    /\ Res.setCookie = Some(LastToken(Res.json[1].id))

\* a body the validation of its route turns down
Incomplete(q) ==
    \/ q.route = REGISTER /\ ~Complete(q)
    \/ q.route = LOGIN /\ (q.email = Missing \/ q.password = Missing)

\* C14: a register request missing a field and a login request missing
\* email or password are answered 400 by the validation itself, in the step
\* of their arrival, whatever the store holds; no storage step or hash call
\* is made for them and the store is unchanged.
C14_MissingFieldsFirst ==
    /\ [](\A r \in Reqs : req[r] # Idle => ~Incomplete(req[r]))
    /\ [][ (response' # Null /\ Incomplete(response'[1].req))
              => /\ AnswersArrival
                 /\ response'[1].status = 400
                 /\ ~response'[1].fault
                 /\ ~response'[1].req.wrote
                 /\ response'[1].req.existingUser = Null
                 /\ <<users, nextId, nextSalt, issued>>' = <<users, nextId, nextSalt, issued>> ]_vars

\* 400 for a register request without a password whose email is taken, and
\* the same for a login request without a password
C14_Witness ==
    /\ response # Null
    /\ Res.status = 400
    /\ Res.req.password = Missing
    /\ FindByEmail(users, Res.req.email) # {}
    /\ Res.req.route = REGISTER

\* the handlers a request has entered so far, in the order it entered them
\* (the trace also records the continuation in which a fault was caught)
HandlerNames ==
    {"register", "login", "isAuthenticated", "isOwnAccount",
     "getAllUsers", "deleteUser", "updateUser"}
IsHandler(h) == h \in HandlerNames
Entered(q) == SelectSeq(q.trace, IsHandler)
IsPrefix(s, t) == Len(s) <= Len(t) /\ \A i \in 1..Len(s) : s[i] = t[i]
InOrder(q) ==
    LET e == Entered(q)
        ran(h) == \E i \in 1..Len(e) : e[i] = h
    IN
    /\ q.route = REGISTER => IsPrefix(e, <<"register">>)
    /\ q.route = LOGIN => IsPrefix(e, <<"login">>)
    /\ q.route = LIST => IsPrefix(e, <<"isAuthenticated", "getAllUsers">>)
    /\ q.route = DELETE => IsPrefix(e, <<"isAuthenticated", "isOwnAccount", "deleteUser">>)
    /\ q.route = PATCH => IsPrefix(e, <<"isAuthenticated", "isOwnAccount", "updateUser">>)
    /\ (ran("isOwnAccount") \/ ran("getAllUsers")) => q.identity # Null
    /\ (ran("deleteUser") \/ ran("updateUser"))
          => q.identity # Null /\ q.identity[1].id = q.id
    /\ q.pc \in {"getAllUsers", "deleteUser", "updateUser", "update"}
          => /\ Len(e) >= (IF q.route = LIST THEN 1 ELSE 2)
             /\ q.identity # Null
             /\ q.route # LIST => q.identity[1].id = q.id

\* C15: a request enters the handlers of its route in the route's order:
\* getAllUsers only after isAuthenticated went on, deleteUser and updateUser
\* only after isAuthenticated and then isOwnAccount went on, isOwnAccount
\* only with an identity attached; register and login are entered first.
C15_GatesFirst ==
    /\ \A r \in Reqs : req[r] # Idle => InOrder(req[r])
    /\ response # Null => InOrder(Res.req)

\* a DELETE answered 200 after the two gates and the controller, in that order
C15_Witness ==
    /\ response # Null
    /\ Res.req.route = DELETE
    /\ Res.status = 200
    /\ Res.req.trace = <<"isAuthenticated", "isOwnAccount", "deleteUser">>

\* the tokens that were issued to users whose record has been deleted
DeadTokens == {issued[i].token : i \in {j \in 1..Len(issued) : issued[j].id \in Gone}}

\* C16: once a record is deleted, no token that was issued to its user
\* matches any record: the 200 of DELETE leaves no record with the deleted
\* record's token, and every request that arrives at the Authentication
\* Gate with such a token afterwards is answered 403 and is never let in.
C16_DeadTokenRejected ==
    /\ [](\A t \in DeadTokens : FindFirstByToken(users, t) = {})
    /\ [][ /\ (response' # Null /\ response'[1].req.route = DELETE
                 /\ response'[1].status = 200)
              => /\ response'[1].json[1].id \in Gone'
                 /\ response'[1].json[1].sessionToken # Null
                      => /\ response'[1].json[1].sessionToken[1] \in DeadTokens'
                         /\ FindFirstByToken(users',
                                response'[1].json[1].sessionToken[1]) = {}
           /\ (AnswersArrival /\ response'[1].req.route \in Gated
                 /\ ~response'[1].fault /\ response'[1].req.cookie \in DeadTokens)
              => /\ response'[1].status = 403
                 /\ response'[1].req.identity = Null
                 /\ users' = users
           /\ \A r \in Reqs : (Holds(r) /\ req'[r].route \in Gated)
                => req'[r].cookie \notin DeadTokens ]_vars

\* GET /users with the cookie of a deleted user was answered 403 by the gate
C16_Witness ==
    /\ response # Null
    /\ Res.req.route = LIST
    /\ Res.status = 403
    /\ ~Res.fault
    /\ Res.req.cookie \in DeadTokens

\* C17: owner requests that passed the gates act on the record one at a
\* time. A waiting DELETE answers 200 and removes the record when the
\* record is there, and answers 400 and changes nothing when it is gone, so
\* a record is removed at most once and the second of two DELETEs gets 400;
\* a PATCH whose existence check or write finds the record gone answers 400,
\* and no step brings back or changes a record with a deleted id.
C17_RemovedOnce ==
    [][ /\ \A r \in Reqs :
             (AnswersWaiting(r) /\ req[r].pc = "deleteUser" /\ ~response'[1].fault)
                => IF FindById(users, req[r].id) # {}
                   THEN /\ response'[1].status = 200
                        /\ users' = users \ FindById(users, req[r].id)
                        /\ req[r].id \notin Gone
                        /\ req[r].id \in Gone'
                   ELSE /\ response'[1].status = 400
                        /\ req[r].id \in Gone
                        /\ users' = users
        /\ \A r \in Reqs :
             (AnswersWaiting(r) /\ req[r].pc \in {"updateUser", "update"}
                /\ FindById(users, req[r].id) = {})
                => /\ response'[1].status = 400
                   /\ req[r].id \in Gone
                   /\ users' = users
        /\ \A u \in users' : u.id \notin Gone ]_vars

\* a PATCH that passed its existence check and found the record deleted by
\* a concurrent DELETE when it wrote
C17_Witness ==
    /\ response # Null
    /\ Res.req.route = PATCH
    /\ Res.status = 400
    /\ ~Res.fault
    /\ Res.req.existingUser # Null
    /\ Res.req.id \in Gone

\* the step of a gate: a request arrives at a gated route and is either
\* answered or let through to its controller
GateStep ==
    \/ AnswersArrival /\ response'[1].req.route \in Gated
    \/ \E r \in Reqs : Holds(r) /\ req'[r].route \in Gated

\* C18: the store changes only in the step that answers 200 to the request
\* that wrote: a request answered 400, 401, 403 or 409 has written nothing
\* in any of its steps, the step of the gates changes nothing and makes no
\* hash call, and no storage fault is ever caught in isOwnAccount, which
\* makes no storage call.
C18_FailuresWriteNothing ==
    /\ [](/\ \A r \in Reqs : ~req[r].wrote
          /\ response # Null =>
               /\ Res.status \in {200, 400, 401, 403, 409}
               /\ Res.req.wrote <=> Res.status = 200 /\ Res.req.route # LIST
               /\ Res.fault => Res.req.trace[Len(Res.req.trace)] # "isOwnAccount")
    /\ [][ /\ <<users, nextId, issued>>' # <<users, nextId, issued>>
              => response' # Null /\ response'[1].status = 200 /\ response'[1].req.wrote
           /\ (response' # Null /\ response'[1].status # 200)
              => <<users, nextId, issued>>' = <<users, nextId, issued>>
           /\ GateStep => <<users, nextId, nextSalt, issued>>' = <<users, nextId, nextSalt, issued>> ]_vars

\* the ownership gate refused a PATCH of another user's record
C18_Witness ==
    /\ response # Null
    /\ Res.req.route = PATCH
    /\ Res.status = 403
    /\ Res.req.trace = <<"isAuthenticated", "isOwnAccount">>
    /\ FindById(users, Res.req.id) # {}
    /\ ~Res.req.wrote

\* the identity of q, if it has one, is a record that held a token
Resolved(q) == q.identity # Null => q.identity[1].sessionToken # Null

\* C19 (as claimed): a record without a sessionToken is never attached as
\* an identity, whatever the cookie: every identity is a record that held a
\* token, and a gated request is answered 200 only for such an identity.
C19_NoTokenNoIdentity ==
    /\ \A r \in Reqs : Resolved(req[r])
    /\ response # Null => Resolved(Res.req)

\* the number of handlers q has entered matches the number of next() calls
\* made for it: one fewer while it waits to enter the handler it is at
OneNextEach(q) ==
    Len(Entered(q)) =
        IF q.pc \in {"hash", "create", "compare", "issue", "store", "update"}
        THEN q.at ELSE q.at - 1

\* C20: every request gets exactly one response. A step either answers one
\* request, which is then over, or lets one request go on without an
\* answer; a request leaves its slot only by being answered; each gate that
\* went on called next() once; a caught storage fault is answered 400; and
\* every waiting request is eventually answered, every response sent.
C20_OneResponse ==
    /\ [](/\ \A r \in Reqs : req[r] # Idle => OneNextEach(req[r])
          /\ response # Null =>
               /\ Res.status \in {200, 400, 401, 403, 409}
               /\ Res.fault => Res.status = 400)
    /\ [][ /\ response' # Null
              => \/ AnswersArrival
                 \/ \E r \in Reqs :
                      /\ AnswersWaiting(r)
                      /\ response'[1].req.route = req[r].route
                      /\ \A o \in Reqs \ {r} : req'[o] = req[o]
           /\ \A r \in Reqs : (req[r] # Idle /\ req'[r] # req[r])
              => \/ AnswersWaiting(r)
                 \/ /\ response' = Null
                    /\ req'[r] # Idle
                    /\ req'[r].route = req[r].route
           /\ \A r \in Reqs : Holds(r)
              => /\ response' = Null
                 /\ \A o \in Reqs \ {r} : req'[o] = req[o] ]_vars
    /\ \A r \in Reqs : (req[r] # Idle) ~> (req[r] = Idle)
    /\ (response # Null) ~> (response = Null)

\* the update of a PATCH that passed its existence check threw, and the
\* request was answered 400
C20_Witness ==
    /\ response # Null
    /\ Res.fault
    /\ Res.status = 400
    /\ Res.req.route = PATCH
    /\ Res.req.pc = "update"
    /\ \A r \in Reqs : req[r] = Idle

====
